---- MODULE Spec2Model ----
(***************************************************************************)
(* Sailboat race sound-signal controller (voojiboxv12.ino).                *)
(*                                                                         *)
(* The sketch is a single thread of control: setup(), then loop() called   *)
(* again and again, with two level-triggered interrupt service routines.   *)
(* The model keeps every global of the sketch, the interrupt controller,   *)
(* the output pins, and a call stack of source line numbers: the head of   *)
(* the stack is the line the processor executes next and the element below *)
(* it is the line a call returns to.  The two push buttons are inputs.     *)
(*                                                                         *)
(* Time is millis(), an unsigned long of 32 bits.  TLC's integers are      *)
(* 32-bit signed, so an unsigned long is kept as its 32-bit pattern read   *)
(* in two's complement: 0 .. 2^31-1 are themselves and 2^32-k is -k.       *)
(* Add32 and Sub32 are the exact 32-bit operations on that pattern.        *)
(***************************************************************************)
EXTENDS Integers, Sequences, FiniteSets, TLC

\* ------------------------------------------------------------ bounds
\* Passes of loop() after setup.
MaxPasses == 2
\* Polls of a held button in a wait-for-release loop.
MaxPolls == 1
\* Program invocations made by one dispatch (one run).
MaxIter == 2

\* --------------------------------------------------------- constants
maxMode == 6
oneMinute == 60000 - 14
thirtySeconds == 30000 - 7
tenSeconds == 10000 - 2
fiveSeconds == 5000 - 1
fortyfiveSeconds == 45000 - 11
fifteenSeconds == 15000 - 3
twofortyFive == 165000 - 40
oneSecond == 1000
beeponDuration == 500
beepoffDuration == 500
claxonlongDuration == 1500
claxonshortDuration == 500
claxonstartDuration == 2000
halfSecond == 500
buttonHold == 1000
fiveBeeps == 5
threeBeeps == 3
loopForever == 1
redblinkDuration == 250
redoffDuration == 250
pollDelay == 100
showDelay == 100
LOW == "LOW"
HIGH == "HIGH"

\* ------------------------------------------- unsigned long arithmetic
Half == 65536
Lo(x) == x % Half
Hi(x) == (x \div Half) % Half
Pack(h, l) == IF h >= 32768 THEN (h - Half) * Half + l ELSE h * Half + l
Add32(a, b) ==
    LET l == Lo(a) + Lo(b)
        h == Hi(a) + Hi(b) + (l \div Half)
    IN  Pack(h % Half, l % Half)
Sub32(a, b) ==
    LET l == Lo(a) - Lo(b)
        h == Hi(a) - Hi(b) + (l \div Half)
    IN  Pack(h % Half, l % Half)
\* a < b as unsigned long values
ULess(a, b) == \/ Hi(a) < Hi(b)
               \/ Hi(a) = Hi(b) /\ Lo(a) < Lo(b)

\* ------------------------------------------------------------- state
VARIABLES
    now,            \* millis()
    stack,          \* call stack of source lines, current line first
    modeNumber, eeprom,
    startRoll,
    modeChange, skipSignal,
    startClock, endClock, waitTime, silenceDuration,
    intZero, intOne, iflag,       \* start / mode interrupt attached, global enable
    relay, beeper, redLed, yellowLed, greenLed,
    toneDuration, notoneDuration, beepCount, beepLoop, blinkCount,
    fiveTimes, selectCase,
    log,            \* history: the tones and beeps of the current run
    iter,           \* history: program invocations made by the current dispatch
    passes,         \* history: passes of loop()
    polls,          \* history: polls of the current wait-for-release loop
    interval,       \* history: nominal length of the last compensated wait
    presses,        \* history: the mode at each validated start press
    blinks,         \* history: red blinks of the latest ShowMode call
    offMode         \* history: the mode in force when power was last cut

mode == <<modeNumber, eeprom>>
isr == <<modeChange, skipSignal>>
clk == <<startClock, endClock, waitTime, silenceDuration, interval>>
irq == <<intZero, intOne, iflag>>
out == <<relay, beeper, redLed, yellowLed, greenLed>>
loc == <<toneDuration, notoneDuration, beepCount, beepLoop, blinkCount, fiveTimes, selectCase>>
hist == <<log, iter, passes, polls, presses, blinks, offMode>>
vars == <<now, stack, mode, startRoll, isr, clk, irq, out, loc, hist>>

\* The byte a mode lives in: modeNumber + 1 and the range test on it.
NextModeNoWrap(m) == (m + 1) % 256
NextMode(m) == IF (m + 1) % 256 > maxMode THEN 0 ELSE (m + 1) % 256
StoredMode(b) == IF b > maxMode THEN 0 ELSE b
YellowStateOdd(m) == m % 2
YellowState(m) == <<0, 1, 0, 1, 0, 1, 1>>[m + 1]
RedBlinks(m) == <<1, 1, 2, 2, 3, 3, 4>>[m + 1]

\* Bytes the EEPROM cell may hold at power-up: a stored mode or an erased
\* cell (255).
EepromBytes == (0 .. maxMode) \cup {255}

\* ----------------------------------------------------- control flow
At(l) == Head(stack) = l
Goto(l) == stack' = <<l>> \o Tail(stack)
Call(entry, ret) == stack' = <<entry, ret>> \o Tail(stack)
Return == stack' = Tail(stack)
Delay(d) == now' = Add32(now, d)

CallSoundClaxon(tone, notone, ret) ==
    /\ toneDuration' = tone
    /\ notoneDuration' = notone
    /\ Call(622, ret)

CallBeepEvent(count, ret) ==
    /\ beepCount' = count
    /\ Call(592, ret)

\* The compensated wait of the timing convention:
\*   waitTime = nominal - (endClock - startClock), in unsigned long arithmetic.
WaitTimeUncompensated(nominal, e, s) == nominal
WaitTime(nominal, e, s) == Sub32(nominal, Sub32(e, s))

Tone(t, d) == [k |-> "claxon", t |-> t, d |-> d, it |-> iter]
Beep(t, d) == [k |-> "beep", t |-> t, d |-> d, it |-> iter]

\* ------------------------------------------------------------- Init
Init ==
    /\ now = 0
    /\ stack = <<189>>
    /\ modeNumber = 0
    /\ eeprom \in EepromBytes
    /\ startRoll = 0
    /\ modeChange = 0
    /\ skipSignal = 1
    /\ startClock = 0 /\ endClock = 0 /\ waitTime = 0 /\ silenceDuration = 0
    /\ intZero = FALSE /\ intOne = FALSE /\ iflag = TRUE
    /\ relay = LOW /\ beeper = LOW /\ redLed = LOW /\ yellowLed = LOW /\ greenLed = LOW
    /\ toneDuration = 0 /\ notoneDuration = 0 /\ beepCount = 0 /\ beepLoop = 0
    /\ blinkCount = 0 /\ fiveTimes = 0 /\ selectCase = 0
    /\ log = <<>> /\ iter = 0 /\ passes = 0 /\ polls = 0 /\ interval = 0
    /\ presses = <<>>
    /\ blinks = 0 /\ offMode = <<>>

\* ------------------------------------- interrupt service routines
\* The two push buttons are inputs: every look at a pin draws its level.
PinLevels == {LOW, HIGH}
\* attachInterrupt (.., LOW): the routine runs while its pin is low, the
\* interrupt is attached and interrupts are enabled.
StartSwitch ==
    /\ iflag /\ intZero
    /\ \E startintPin \in PinLevels : startintPin = LOW
    /\ skipSignal' = 0
    /\ UNCHANGED <<now, stack, mode, startRoll, modeChange, clk, irq, out, loc, hist>>
ModeSwitch ==
    /\ iflag /\ intOne
    /\ \E modeintPin \in PinLevels : modeintPin = LOW
    /\ modeChange' = 1
    /\ UNCHANGED <<now, stack, mode, startRoll, skipSignal, clk, irq, out, loc, hist>>

\* ------------------------------------------------------------ setup
Setup_ReadMode ==
    /\ At(189)
    /\ modeNumber' = StoredMode(eeprom)
    /\ greenLed' = HIGH
    /\ Goto(210)
    /\ UNCHANGED <<now, eeprom, startRoll, isr, clk, irq, relay, beeper, redLed,
                   yellowLed, loc, hist>>
Setup_ShowMode ==
    /\ At(210)
    /\ Call(543, 212)
    /\ UNCHANGED <<now, mode, startRoll, isr, clk, irq, out, loc, hist>>
Setup_AttachStart ==
    /\ At(212)
    /\ intZero' = TRUE
    /\ Goto(213)
    /\ UNCHANGED <<now, mode, startRoll, isr, clk, intOne, iflag, out, loc, hist>>
Setup_AttachMode ==
    /\ At(213)
    /\ intOne' = TRUE
    /\ Goto(228)
    /\ passes' = passes + 1
    /\ offMode' = <<>>
    /\ UNCHANGED <<now, mode, startRoll, isr, clk, intZero, iflag, out, loc, log, iter,
                   polls, presses, blinks>>

\* --------------------------------------------------------- ShowMode
ShowMode_BeginNextMode ==
    /\ At(543)
    /\ yellowLed' = LOW
    /\ modeNumber' = NextMode(modeNumber)
    /\ Delay(showDelay)
    /\ Goto(550)
    /\ UNCHANGED <<eeprom, startRoll, isr, clk, irq, relay, beeper, redLed, greenLed,
                   loc, hist>>
ShowMode_Begin ==
    /\ At(543)
    /\ yellowLed' = LOW
    /\ Delay(showDelay)
    /\ Goto(550)
    /\ UNCHANGED <<mode, startRoll, isr, clk, irq, relay, beeper, redLed, greenLed,
                   loc, hist>>
ShowMode_Yellow ==
    /\ At(550)
    /\ yellowLed' = (IF YellowState(modeNumber) > 0 THEN HIGH ELSE LOW)
    /\ blinkCount' = RedBlinks(modeNumber)
    /\ blinks' = 0
    /\ Goto(565)
    /\ UNCHANGED <<now, mode, startRoll, isr, clk, irq, relay, beeper, redLed,
                   greenLed, toneDuration, notoneDuration, beepCount, beepLoop,
                   fiveTimes, selectCase, log, iter, passes, polls, presses, offMode>>
ShowMode_BlinkOn ==
    /\ At(565) /\ blinkCount > 0
    /\ redLed' = HIGH
    /\ blinks' = blinks + 1
    /\ Delay(redblinkDuration)
    /\ Goto(569)
    /\ UNCHANGED <<mode, startRoll, isr, clk, irq, relay, beeper, yellowLed, greenLed,
                   loc, log, iter, passes, polls, presses, offMode>>
ShowMode_BlinkOff ==
    /\ At(569)
    /\ redLed' = LOW
    /\ Delay(redoffDuration)
    /\ blinkCount' = blinkCount - 1
    /\ Goto(565)
    /\ UNCHANGED <<mode, startRoll, isr, clk, irq, relay, beeper, yellowLed, greenLed,
                   toneDuration, notoneDuration, beepCount, beepLoop, fiveTimes,
                   selectCase, hist>>
ShowMode_End ==
    /\ At(565) /\ ~(blinkCount > 0)
    /\ Delay(oneSecond)
    /\ Return
    /\ UNCHANGED <<mode, startRoll, isr, clk, irq, out, loc, hist>>

\* -------------------------------------------------------- BeepEvent
BeepEvent_Begin ==
    /\ At(592)
    /\ beepLoop' = beepCount
    /\ Goto(594)
    /\ UNCHANGED <<now, mode, startRoll, isr, clk, irq, out, toneDuration,
                   notoneDuration, beepCount, blinkCount, fiveTimes, selectCase, hist>>
BeepEvent_ToneOn ==
    /\ At(594) /\ beepLoop > 0
    /\ beeper' = HIGH
    /\ log' = Append(log, Beep(now, beeponDuration))
    /\ Goto(597)
    /\ UNCHANGED <<now, mode, startRoll, isr, clk, irq, relay, redLed, yellowLed,
                   greenLed, loc, iter, passes, polls, presses, blinks, offMode>>
BeepEvent_ToneOff ==
    /\ At(597)
    /\ Delay(beeponDuration)
    /\ beeper' = LOW
    /\ Goto(599)
    /\ UNCHANGED <<mode, startRoll, isr, clk, irq, relay, redLed, yellowLed, greenLed,
                   loc, hist>>
BeepEvent_Pause ==
    /\ At(599)
    /\ Delay(beepoffDuration)
    /\ beepLoop' = beepLoop - 1
    /\ Goto(594)
    /\ UNCHANGED <<mode, startRoll, isr, clk, irq, out, toneDuration, notoneDuration,
                   beepCount, blinkCount, fiveTimes, selectCase, hist>>
BeepEvent_End ==
    /\ At(594) /\ ~(beepLoop > 0)
    /\ Return
    /\ UNCHANGED <<now, mode, startRoll, isr, clk, irq, out, loc, hist>>

\* ------------------------------------------------------ SoundClaxon
SoundClaxon_ToneOn ==
    /\ At(622)
    /\ relay' = HIGH
    /\ log' = Append(log, Tone(now, toneDuration))
    /\ Goto(624)
    /\ UNCHANGED <<now, mode, startRoll, isr, clk, irq, beeper, redLed, yellowLed,
                   greenLed, loc, iter, passes, polls, presses, blinks, offMode>>
SoundClaxon_ToneOffStuck ==
    /\ At(624)
    /\ Delay(toneDuration)
    /\ Goto(628)
    /\ UNCHANGED <<mode, startRoll, isr, clk, irq, out, loc, hist>>
SoundClaxon_ToneOff ==
    /\ At(624)
    /\ Delay(toneDuration)
    /\ relay' = LOW
    /\ Goto(628)
    /\ UNCHANGED <<mode, startRoll, isr, clk, irq, beeper, redLed, yellowLed, greenLed,
                   loc, hist>>
SoundClaxon_Silence ==
    /\ At(628)
    /\ Delay(notoneDuration)
    /\ Return
    /\ UNCHANGED <<mode, startRoll, isr, clk, irq, out, loc, hist>>

\* ------------------------------------------------- loop: mode change
Loop_CheckMode ==
    /\ At(228)
    /\ IF modeChange > 0 THEN Goto(234) ELSE Goto(278)
    /\ UNCHANGED <<now, mode, startRoll, isr, clk, irq, out, loc, hist>>
Loop_ModeHold ==
    /\ At(234)
    /\ iflag' = FALSE
    /\ Delay(buttonHold)
    /\ Goto(239)
    /\ UNCHANGED <<mode, startRoll, isr, clk, intZero, intOne, out, loc, hist>>
Loop_ModeRead ==
    /\ At(239)
    /\ \E modeintPin \in PinLevels :
          IF modeintPin = LOW THEN Goto(247) ELSE Goto(271)
    /\ UNCHANGED <<now, mode, startRoll, isr, clk, irq, out, loc, hist>>
Loop_ModeIncrement ==
    /\ At(247)
    /\ modeNumber' = NextMode(modeNumber)
    /\ Call(543, 259)
    /\ UNCHANGED <<now, eeprom, startRoll, isr, clk, irq, out, loc, hist>>
Loop_ModeStore ==
    /\ At(259)
    /\ eeprom' = modeNumber
    /\ Goto(264)
    /\ UNCHANGED <<now, modeNumber, startRoll, isr, clk, irq, out, loc, hist>>
Loop_ModeRelease ==
    /\ At(264)
    /\ \E modeintPin \in PinLevels :
       \/ /\ modeintPin = LOW
          /\ polls < MaxPolls
          /\ Delay(pollDelay)
          /\ polls' = polls + 1
          /\ Goto(264)
       \/ /\ modeintPin # LOW
          /\ polls' = 0
          /\ Goto(271)
          /\ UNCHANGED now
    /\ UNCHANGED <<mode, startRoll, isr, clk, irq, out, loc, log, iter, passes,
                   presses, blinks, offMode>>
Loop_ModeDone ==
    /\ At(271)
    /\ modeChange' = 0
    /\ iflag' = TRUE
    /\ Goto(278)
    /\ UNCHANGED <<now, mode, startRoll, skipSignal, clk, intZero, intOne, out, loc,
                   hist>>
Loop_ShowMode ==
    /\ At(278)
    /\ Call(543, 284)
    /\ UNCHANGED <<now, mode, startRoll, isr, clk, irq, out, loc, hist>>

\* ------------------------------------------------ loop: start press
Loop_CheckStart ==
    /\ At(284)
    /\ IF skipSignal < 1 THEN Goto(286) ELSE Goto(490)
    /\ UNCHANGED <<now, mode, startRoll, isr, clk, irq, out, loc, hist>>
Loop_StartHold ==
    /\ At(286)
    /\ iflag' = FALSE
    /\ Delay(buttonHold)
    /\ Goto(289)
    /\ UNCHANGED <<mode, startRoll, isr, clk, intZero, intOne, out, loc, hist>>
\* A validated press opens a run: the history of the previous run is dropped.
Loop_StartRead ==
    /\ At(289)
    /\ \E startintPin \in PinLevels :
       \/ /\ startintPin = LOW
          /\ Goto(294)
          /\ log' = <<>>
          /\ iter' = 0
          /\ presses' = Append(presses, modeNumber)
       \/ /\ startintPin # LOW
          /\ Goto(470)
          /\ UNCHANGED <<log, iter, presses>>
    /\ UNCHANGED <<now, mode, startRoll, isr, clk, irq, out, loc, passes, polls, blinks,
                   offMode>>
Loop_StartRelease ==
    /\ At(294)
    /\ \E startintPin \in PinLevels :
       \/ /\ startintPin = LOW
          /\ polls < MaxPolls
          /\ Delay(pollDelay)
          /\ polls' = polls + 1
          /\ Goto(294)
       \/ /\ startintPin # LOW
          /\ polls' = 0
          /\ Goto(304)
          /\ UNCHANGED now
    /\ UNCHANGED <<mode, startRoll, isr, clk, irq, out, loc, log, iter, passes,
                   presses, blinks, offMode>>
Loop_EnableInterrupts ==
    /\ At(304)
    /\ iflag' = TRUE
    /\ Goto(305)
    /\ UNCHANGED <<now, mode, startRoll, isr, clk, intZero, intOne, out, loc, hist>>
Loop_DetachStart ==
    /\ At(305)
    /\ intZero' = FALSE
    /\ Goto(306)
    /\ UNCHANGED <<now, mode, startRoll, isr, clk, intOne, iflag, out, loc, hist>>
Loop_DetachModeMissing ==
    /\ At(306)
    /\ Goto(314)
    /\ UNCHANGED <<now, mode, startRoll, isr, clk, irq, out, loc, hist>>
Loop_DetachMode ==
    /\ At(306)
    /\ intOne' = FALSE
    /\ Goto(314)
    /\ UNCHANGED <<now, mode, startRoll, isr, clk, intZero, iflag, out, loc, hist>>

\* ----------------------------------------------- loop: announcement
Loop_AnnounceBeeps ==
    /\ At(314)
    /\ CallBeepEvent(fiveBeeps, 320)
    /\ UNCHANGED <<now, mode, startRoll, isr, clk, irq, out, toneDuration,
                   notoneDuration, beepLoop, blinkCount, fiveTimes, selectCase, hist>>
Loop_AnnounceInitFour ==
    /\ At(320)
    /\ silenceDuration' = Sub32(oneSecond, claxonshortDuration)
    /\ fiveTimes' = 4
    /\ Goto(324)
    /\ UNCHANGED <<now, mode, startRoll, isr, startClock, endClock, waitTime, interval,
                   irq, out, toneDuration, notoneDuration, beepCount, beepLoop,
                   blinkCount, selectCase, hist>>
Loop_AnnounceInit ==
    /\ At(320)
    /\ silenceDuration' = Sub32(oneSecond, claxonshortDuration)
    /\ fiveTimes' = 5
    /\ Goto(324)
    /\ UNCHANGED <<now, mode, startRoll, isr, startClock, endClock, waitTime, interval,
                   irq, out, toneDuration, notoneDuration, beepCount, beepLoop,
                   blinkCount, selectCase, hist>>
Loop_AnnounceClaxon ==
    /\ At(324)
    /\ IF fiveTimes > 0
         THEN CallSoundClaxon(claxonshortDuration, silenceDuration, 329)
         ELSE Goto(336) /\ UNCHANGED <<toneDuration, notoneDuration>>
    /\ UNCHANGED <<now, mode, startRoll, isr, clk, irq, out, beepCount, beepLoop,
                   blinkCount, fiveTimes, selectCase, hist>>
Loop_AnnounceCount ==
    /\ At(329)
    /\ fiveTimes' = fiveTimes - 1
    /\ Goto(324)
    /\ UNCHANGED <<now, mode, startRoll, isr, clk, irq, out, toneDuration,
                   notoneDuration, beepCount, beepLoop, blinkCount, selectCase, hist>>
Loop_AnnounceMoreBeeps ==
    /\ At(336)
    /\ CallBeepEvent(fiveBeeps, 344)
    /\ UNCHANGED <<now, mode, startRoll, isr, clk, irq, out, toneDuration,
                   notoneDuration, beepLoop, blinkCount, fiveTimes, selectCase, hist>>

\* -------------------------------------------------- loop: dispatch
\* switch ( selectCase ): the line of the matching case label, or the line
\* after the switch when no label matches.
CaseLine(c) ==
    CASE c = 1 -> 353
      [] c = 2 -> 364
      [] c = 3 -> 386
      [] c = 4 -> 397
      [] c = 5 -> 419
      [] c = 6 -> 430
      [] c = 7 -> 451
      [] OTHER -> 479
Loop_Select ==
    /\ At(344)
    /\ selectCase' = modeNumber + 1
    /\ Goto(CaseLine(modeNumber + 1))
    /\ UNCHANGED <<now, mode, startRoll, isr, clk, irq, out, toneDuration,
                   notoneDuration, beepCount, beepLoop, blinkCount, fiveTimes, hist>>

\* startRoll = 0; Program (); break;
SingleStart(at, entry, ret) ==
    /\ At(at)
    /\ startRoll' = 0
    /\ iter' = iter + 1
    /\ Call(entry, ret)
    /\ UNCHANGED <<now, mode, isr, clk, irq, out, loc, log, passes, polls, presses, blinks, offMode>>
Break(at) ==
    /\ At(at)
    /\ Goto(479)
    /\ UNCHANGED <<now, mode, startRoll, isr, clk, irq, out, loc, hist>>
\* startRoll = 0; while ( loopForever > 0 ) { Program (); startRoll = 1; }
RollFirst(at, while) ==
    /\ At(at)
    /\ startRoll' = 0
    /\ Goto(while)
    /\ UNCHANGED <<now, mode, isr, clk, irq, out, loc, hist>>
RollCall(while, entry, ret) ==
    /\ At(while)
    /\ loopForever > 0
    /\ iter < MaxIter
    /\ iter' = iter + 1
    /\ Call(entry, ret)
    /\ UNCHANGED <<now, mode, startRoll, isr, clk, irq, out, loc, log, passes, polls, presses, blinks, offMode>>
RollNextReset(at, while) ==
    /\ At(at)
    /\ startRoll' = 0
    /\ Goto(while)
    /\ UNCHANGED <<now, mode, isr, clk, irq, out, loc, hist>>
RollNextBreak(at, while) ==
    /\ At(at)
    /\ startRoll' = 1
    /\ Goto(479)
    /\ UNCHANGED <<now, mode, isr, clk, irq, out, loc, hist>>
RollNext(at, while) ==
    /\ At(at)
    /\ startRoll' = 1
    /\ Goto(while)
    /\ UNCHANGED <<now, mode, isr, clk, irq, out, loc, hist>>

Case1_AppendixS == SingleStart(353, 645, 357) \/ Break(357)
Case2_AppendixSRolling ==
    RollFirst(364, 370) \/ RollCall(370, 645, 375) \/ RollNext(375, 370)
Case3_RuleTwoSix == SingleStart(386, 809, 390) \/ Break(390)
Case4_RuleTwoSixRolling ==
    RollFirst(397, 403) \/ RollCall(403, 809, 408) \/ RollNext(408, 403)
Case5_RuleTwoNineTwo == SingleStart(419, 917, 423) \/ Break(423)
Case6_RuleTwoNineTwoRolling ==
    RollFirst(430, 436) \/ RollCall(436, 917, 441) \/ RollNext(441, 436)
Case7_PursuitRedOff ==
    \/ SingleStart(451, 645, 455)
    \/ /\ At(455)
       /\ Goto(457)
       /\ UNCHANGED <<now, mode, startRoll, isr, clk, irq, out, loc, hist>>
    \/ RollCall(457, 722, 457)
Case7_Pursuit ==
    \/ SingleStart(451, 645, 455)
    \/ /\ At(455)
       /\ redLed' = HIGH
       /\ Goto(457)
       /\ UNCHANGED <<now, mode, startRoll, isr, clk, irq, relay, beeper, yellowLed,
                      greenLed, loc, hist>>
    \/ RollCall(457, 722, 457)

\* ------------------------------------------- loop: bounce and re-arm
Loop_BounceEnable ==
    /\ At(470)
    /\ iflag' = TRUE
    /\ Goto(471)
    /\ UNCHANGED <<now, mode, startRoll, isr, clk, intZero, intOne, out, loc, hist>>
Loop_BounceNoAttach ==
    /\ At(471)
    /\ Delay(pollDelay)
    /\ Goto(479)
    /\ UNCHANGED <<mode, startRoll, isr, clk, irq, out, loc, hist>>
Loop_BounceAttachMode ==
    /\ At(471)
    /\ Delay(pollDelay)
    /\ intOne' = TRUE
    /\ Goto(479)
    /\ UNCHANGED <<mode, startRoll, isr, clk, intZero, iflag, out, loc, hist>>
Loop_SkipAgainMissing ==
    /\ At(479)
    /\ Goto(480)
    /\ UNCHANGED <<now, mode, startRoll, isr, clk, irq, out, loc, hist>>
Loop_SkipAgain ==
    /\ At(479)
    /\ skipSignal' = 1
    /\ Goto(480)
    /\ UNCHANGED <<now, mode, startRoll, modeChange, clk, irq, out, loc, hist>>
Loop_AttachStart ==
    /\ At(480)
    /\ intZero' = TRUE
    /\ Goto(490)
    /\ UNCHANGED <<now, mode, startRoll, isr, clk, intOne, iflag, out, loc, hist>>
Loop_End ==
    /\ At(490)
    /\ passes < MaxPasses
    /\ Delay(oneSecond)
    /\ passes' = passes + 1
    /\ Goto(228)
    /\ UNCHANGED <<mode, startRoll, isr, clk, irq, out, loc, log, iter, polls, presses, blinks, offMode>>

\* ------------------------------------------- statements of a program
\* startClock = millis ();
Anchor(at, next) ==
    /\ At(at)
    /\ startClock' = now
    /\ Goto(next)
    /\ UNCHANGED <<now, mode, startRoll, isr, endClock, waitTime, silenceDuration,
                   interval, irq, out, loc, hist>>
\* SoundClaxon ( tone, silenceDuration );
Sound(at, tone, next) ==
    /\ At(at)
    /\ CallSoundClaxon(tone, silenceDuration, next)
    /\ UNCHANGED <<now, mode, startRoll, isr, clk, irq, out, beepCount, beepLoop,
                   blinkCount, fiveTimes, selectCase, hist>>
\* BeepEvent (threeBeeps);
Cue(at, next) ==
    /\ At(at)
    /\ CallBeepEvent(threeBeeps, next)
    /\ UNCHANGED <<now, mode, startRoll, isr, clk, irq, out, toneDuration,
                   notoneDuration, beepLoop, blinkCount, fiveTimes, selectCase, hist>>
\* endClock = millis (); waitTime = nominal - (endClock - startClock); delay ( waitTime );
Wait(at, nominal, next) ==
    /\ At(at)
    /\ endClock' = now
    /\ waitTime' = WaitTime(nominal, now, startClock)
    /\ Delay(WaitTime(nominal, now, startClock))
    /\ interval' = nominal
    /\ Goto(next)
    /\ UNCHANGED <<mode, startRoll, isr, startClock, silenceDuration, irq, out, loc,
                   hist>>
\* digitalWrite (modePin, level);
Red(at, level, next) ==
    /\ At(at)
    /\ redLed' = level
    /\ Goto(next)
    /\ UNCHANGED <<now, mode, startRoll, isr, clk, irq, relay, beeper, yellowLed,
                   greenLed, loc, hist>>
EntryAlwaysFirst(at, first, rest) ==
    /\ At(at)
    /\ silenceDuration' = halfSecond
    /\ Goto(first)
    /\ UNCHANGED <<now, mode, startRoll, isr, startClock, endClock, waitTime, interval,
                   irq, out, loc, hist>>
\* silenceDuration = halfSecond; if ( startRoll == 0 ) { first } rest
Entry(at, first, rest) ==
    /\ At(at)
    /\ silenceDuration' = halfSecond
    /\ IF startRoll = 0 THEN Goto(first) ELSE Goto(rest)
    /\ UNCHANGED <<now, mode, startRoll, isr, startClock, endClock, waitTime, interval,
                   irq, out, loc, hist>>
Leave(at, level) ==
    /\ At(at)
    /\ redLed' = level
    /\ Return
    /\ UNCHANGED <<now, mode, startRoll, isr, clk, irq, relay, beeper, yellowLed,
                   greenLed, loc, hist>>

\* -------------------------------------------------------- AppendixS
AppendixS_Entry == Entry(645, 655, 663)
AppendixS_ThreeMinutes ==
    \/ Anchor(655, 657)
    \/ Sound(657, claxonlongDuration, 658)
    \/ Sound(658, claxonlongDuration, 659)
    \/ Sound(659, claxonlongDuration, 663)
AppendixS_WaitHalfMinute == Wait(663, thirtySeconds, 671)
AppendixS_WaitTwoMinutes == Wait(663, oneMinute, 671)
AppendixS_TwoMinutes ==
    \/ Anchor(671, 673)
    \/ Sound(673, claxonlongDuration, 674)
    \/ Sound(674, claxonlongDuration, 676)
    \/ Wait(676, thirtySeconds, 685)
AppendixS_NinetySeconds ==
    \/ Anchor(685, 687)
    \/ Sound(687, claxonlongDuration, 689)
    \/ Sound(689, claxonshortDuration, 690)
    \/ Sound(690, claxonshortDuration, 691)
    \/ Sound(691, claxonshortDuration, 693)
    \/ Wait(693, thirtySeconds, 702)
AppendixS_OneMinute ==
    \/ Anchor(702, 704)
    \/ Sound(704, claxonlongDuration, 706)
    \/ Red(706, HIGH, 708)
AppendixS_FinalMinute ==
    /\ At(708)
    /\ Call(722, 710)
    /\ UNCHANGED <<now, mode, startRoll, isr, clk, irq, out, loc, hist>>
AppendixS_ReturnRedOn == Leave(710, HIGH)
AppendixS_Return == Leave(710, LOW)

\* -------------------------------------------------- AppendixSMinute
AppendixSMinute_WaitThirty == Wait(722, thirtySeconds, 732)
AppendixSMinute_ThirtySeconds ==
    \/ Anchor(732, 734)
    \/ Sound(734, claxonshortDuration, 735)
    \/ Sound(735, claxonshortDuration, 736)
    \/ Sound(736, claxonshortDuration, 738)
    \/ Wait(738, tenSeconds, 747)
AppendixSMinute_TwentySeconds ==
    \/ Anchor(747, 749)
    \/ Sound(749, claxonshortDuration, 750)
    \/ Sound(750, claxonshortDuration, 752)
    \/ Wait(752, tenSeconds, 761)
AppendixSMinute_TenSeconds ==
    \/ Anchor(761, 763)
    \/ Sound(763, claxonshortDuration, 765)
    \/ Wait(765, fiveSeconds, 774)
AppendixSMinute_FourInit ==
    /\ At(774)
    /\ fiveTimes' = 4
    /\ Goto(775)
    /\ UNCHANGED <<now, mode, startRoll, isr, clk, irq, out, toneDuration,
                   notoneDuration, beepCount, beepLoop, blinkCount, selectCase, hist>>
AppendixSMinute_FiveInit ==
    /\ At(774)
    /\ fiveTimes' = 5
    /\ Goto(775)
    /\ UNCHANGED <<now, mode, startRoll, isr, clk, irq, out, toneDuration,
                   notoneDuration, beepCount, beepLoop, blinkCount, selectCase, hist>>
AppendixSMinute_FiveTone ==
    /\ At(775)
    /\ IF fiveTimes > 0
         THEN CallSoundClaxon(halfSecond, halfSecond, 780)
         ELSE Goto(791) /\ UNCHANGED <<toneDuration, notoneDuration>>
    /\ UNCHANGED <<now, mode, startRoll, isr, clk, irq, out, beepCount, beepLoop,
                   blinkCount, fiveTimes, selectCase, hist>>
AppendixSMinute_FiveCount ==
    /\ At(780)
    /\ fiveTimes' = fiveTimes - 1
    /\ Goto(775)
    /\ UNCHANGED <<now, mode, startRoll, isr, clk, irq, out, toneDuration,
                   notoneDuration, beepCount, beepLoop, blinkCount, selectCase, hist>>
AppendixSMinute_StartNoAnchor ==
    \/ /\ At(791)
       /\ Goto(793)
       /\ UNCHANGED <<now, mode, startRoll, isr, clk, irq, out, loc, hist>>
    \/ Sound(793, claxonstartDuration, 794)
AppendixSMinute_Start ==
    \/ Anchor(791, 793)
    \/ Sound(793, claxonstartDuration, 794)
AppendixSMinute_Return ==
    /\ At(794)
    /\ Return
    /\ UNCHANGED <<now, mode, startRoll, isr, clk, irq, out, loc, hist>>

\* ------------------------------------------------------- RuleTwoSix
RuleTwoSix_Entry == Entry(809, 819, 825)
RuleTwoSix_FiveMinutes ==
    \/ Anchor(819, 821)
    \/ Sound(821, claxonlongDuration, 825)
RuleTwoSix_CueFourNoAnchor ==
    \/ Wait(825, fortyfiveSeconds, 834)
    \/ /\ At(834)
       /\ Goto(835)
       /\ UNCHANGED <<now, mode, startRoll, isr, clk, irq, out, loc, hist>>
    \/ Cue(835, 836)
    \/ Wait(836, fifteenSeconds, 846)
RuleTwoSix_CueFourLate ==
    \/ Wait(825, fortyfiveSeconds, 834)
    \/ Anchor(834, 835)
    \/ Cue(835, 836)
    \/ Wait(836, fortyfiveSeconds, 846)
RuleTwoSix_CueFour ==
    \/ Wait(825, fortyfiveSeconds, 834)
    \/ Anchor(834, 835)
    \/ Cue(835, 836)
    \/ Wait(836, fifteenSeconds, 846)
RuleTwoSix_FourMinutes ==
    \/ Anchor(846, 848)
    \/ Sound(848, claxonlongDuration, 850)
RuleTwoSix_CueOne ==
    \/ Wait(850, twofortyFive, 859)
    \/ Anchor(859, 860)
    \/ Cue(860, 861)
    \/ Wait(861, fifteenSeconds, 870)
RuleTwoSix_OneMinute ==
    \/ Anchor(870, 872)
    \/ Sound(872, claxonlongDuration, 874)
    \/ Red(874, HIGH, 876)
RuleTwoSix_CueStart ==
    \/ Wait(876, fortyfiveSeconds, 885)
    \/ Anchor(885, 886)
    \/ Cue(886, 887)
    \/ Wait(887, fifteenSeconds, 895)
RuleTwoSix_Start ==
    \/ Anchor(895, 897)
    \/ Sound(897, claxonlongDuration, 899)
RuleTwoSix_Return == Leave(899, LOW)

\* --------------------------------------------------- RuleTwoNineTwo
RuleTwoNineTwo_EntryAlwaysSix == EntryAlwaysFirst(917, 926, 954)
RuleTwoNineTwo_Entry == Entry(917, 926, 954)
RuleTwoNineTwo_SixMinutes ==
    \/ Anchor(926, 932)
    \/ Sound(932, claxonlongDuration, 933)
    \/ Sound(933, claxonlongDuration, 935)
RuleTwoNineTwo_CueFiveLong ==
    \/ Wait(935, oneMinute, 945)
    \/ Anchor(945, 946)
    \/ Cue(946, 947)
    \/ Wait(947, fifteenSeconds, 954)
RuleTwoNineTwo_CueFive ==
    \/ Wait(935, fortyfiveSeconds, 945)
    \/ Anchor(945, 946)
    \/ Cue(946, 947)
    \/ Wait(947, fifteenSeconds, 954)
RuleTwoNineTwo_RuleTwoSixPastLeading ==
    /\ At(954)
    /\ Call(825, 955)
    /\ UNCHANGED <<now, mode, startRoll, isr, clk, irq, out, loc, hist>>
RuleTwoNineTwo_RuleTwoSix ==
    /\ At(954)
    /\ Call(809, 955)
    /\ UNCHANGED <<now, mode, startRoll, isr, clk, irq, out, loc, hist>>
RuleTwoNineTwo_Return ==
    /\ At(955)
    /\ Return
    /\ UNCHANGED <<now, mode, startRoll, isr, clk, irq, out, loc, hist>>

\* ------------------------------------------------------------- Next
Interrupt == StartSwitch \/ ModeSwitch
Setup == Setup_ReadMode \/ Setup_ShowMode \/ Setup_AttachStart \/ Setup_AttachMode
ShowMode ==
    \/ ShowMode_Begin \/ ShowMode_Yellow \/ ShowMode_BlinkOn \/ ShowMode_BlinkOff
    \/ ShowMode_End
BeepEvent ==
    \/ BeepEvent_Begin \/ BeepEvent_ToneOn \/ BeepEvent_ToneOff \/ BeepEvent_Pause
    \/ BeepEvent_End
SoundClaxon == SoundClaxon_ToneOn \/ SoundClaxon_ToneOff \/ SoundClaxon_Silence
Loop ==
    \/ Loop_CheckMode \/ Loop_ModeHold \/ Loop_ModeRead \/ Loop_ModeIncrement
    \/ Loop_ModeStore \/ Loop_ModeRelease \/ Loop_ModeDone \/ Loop_ShowMode
    \/ Loop_CheckStart \/ Loop_StartHold \/ Loop_StartRead \/ Loop_StartRelease
    \/ Loop_EnableInterrupts \/ Loop_DetachStart \/ Loop_DetachMode
    \/ Loop_AnnounceBeeps \/ Loop_AnnounceInit \/ Loop_AnnounceClaxon
    \/ Loop_AnnounceCount \/ Loop_AnnounceMoreBeeps \/ Loop_Select
    \/ Case1_AppendixS \/ Case2_AppendixSRolling \/ Case3_RuleTwoSix
    \/ Case4_RuleTwoSixRolling \/ Case5_RuleTwoNineTwo \/ Case6_RuleTwoNineTwoRolling
    \/ Case7_Pursuit
    \/ Loop_BounceEnable \/ Loop_BounceAttachMode \/ Loop_SkipAgain \/ Loop_AttachStart
    \/ Loop_End
AppendixS ==
    \/ AppendixS_Entry \/ AppendixS_ThreeMinutes \/ AppendixS_WaitTwoMinutes
    \/ AppendixS_TwoMinutes \/ AppendixS_NinetySeconds \/ AppendixS_OneMinute
    \/ AppendixS_FinalMinute \/ AppendixS_Return
AppendixSMinute ==
    \/ AppendixSMinute_WaitThirty \/ AppendixSMinute_ThirtySeconds
    \/ AppendixSMinute_TwentySeconds \/ AppendixSMinute_TenSeconds
    \/ AppendixSMinute_FiveInit \/ AppendixSMinute_FiveTone \/ AppendixSMinute_FiveCount
    \/ AppendixSMinute_Start \/ AppendixSMinute_Return
RuleTwoSix ==
    \/ RuleTwoSix_Entry \/ RuleTwoSix_FiveMinutes \/ RuleTwoSix_CueFour
    \/ RuleTwoSix_FourMinutes \/ RuleTwoSix_CueOne \/ RuleTwoSix_OneMinute
    \/ RuleTwoSix_CueStart \/ RuleTwoSix_Start \/ RuleTwoSix_Return
RuleTwoNineTwo ==
    \/ RuleTwoNineTwo_Entry \/ RuleTwoNineTwo_SixMinutes \/ RuleTwoNineTwo_CueFive
    \/ RuleTwoNineTwo_RuleTwoSix \/ RuleTwoNineTwo_Return
Program == AppendixS \/ AppendixSMinute \/ RuleTwoSix \/ RuleTwoNineTwo

Next ==
    \/ Interrupt
    \/ Setup \/ Loop \/ ShowMode \/ BeepEvent \/ SoundClaxon \/ Program

Spec == Init /\ [][Next]_vars
\* The processor executes the next statement as long as there is one, and a
\* held button is let go (MaxPolls): the sketch never stops between two
\* statements.
SpecFair == Spec /\ WF_vars(Next)

\* ---------------------------------------------------------- power cycle
\* Power is cut and restored: the EEPROM cell keeps its byte, every global
\* takes its initialiser again (lines 170-182), the outputs are low and
\* setup() runs from its first statement. Power can be cut at any statement.
\* The mode in force at the cut is remembered until setup() has finished;
\* before setup() has read the cell no mode is in force yet.
PowerCycle ==
    /\ offMode' = (IF stack = <<189>> THEN offMode ELSE <<modeNumber>>)
    /\ eeprom' = eeprom
    /\ now' = 0
    /\ stack' = <<189>>
    /\ modeNumber' = 0
    /\ startRoll' = 0
    /\ modeChange' = 0
    /\ skipSignal' = 1
    /\ startClock' = 0 /\ endClock' = 0 /\ waitTime' = 0 /\ silenceDuration' = 0
    /\ intZero' = FALSE /\ intOne' = FALSE /\ iflag' = TRUE
    /\ relay' = LOW /\ beeper' = LOW /\ redLed' = LOW /\ yellowLed' = LOW
    /\ greenLed' = LOW
    /\ toneDuration' = 0 /\ notoneDuration' = 0 /\ beepCount' = 0 /\ beepLoop' = 0
    /\ blinkCount' = 0 /\ fiveTimes' = 0 /\ selectCase' = 0
    /\ log' = <<>> /\ iter' = 0 /\ passes' = 0 /\ polls' = 0 /\ interval' = 0
    /\ presses' = <<>> /\ blinks' = 0
NextPower == Next \/ PowerCycle
SpecPower == Init /\ [][NextPower]_vars

\* ------------------------------------ one compensated interval, alone
\* The timing convention on its own: an anchor, processing of any length,
\* then the compensated wait of any nominal interval, as in lines 761-768
\* with the tone replaced by processing that takes a drawn time and with
\* millis() starting anywhere, also just before it wraps.
MaxRounds == 2
Nominals ==
    {oneMinute, thirtySeconds, tenSeconds, fiveSeconds, fortyfiveSeconds,
     fifteenSeconds, twofortyFive}
WorkTimes == {0, 2500, fiveSeconds, fiveSeconds + 1, oneMinute, twofortyFive + 1}
ClockStarts == {0, Sub32(0, oneSecond)}
ClockInit ==
    /\ now \in ClockStarts
    /\ stack = <<761>>
    /\ modeNumber = 0
    /\ eeprom = 0
    /\ startRoll = 0
    /\ modeChange = 0
    /\ skipSignal = 0
    /\ startClock = 0 /\ endClock = 0 /\ waitTime = 0 /\ silenceDuration = halfSecond
    /\ intZero = FALSE /\ intOne = FALSE /\ iflag = TRUE
    /\ relay = LOW /\ beeper = LOW /\ redLed = HIGH /\ yellowLed = LOW /\ greenLed = HIGH
    /\ toneDuration = 0 /\ notoneDuration = 0 /\ beepCount = 0 /\ beepLoop = 0
    /\ blinkCount = 0 /\ fiveTimes = 0 /\ selectCase = 1
    /\ log = <<>> /\ iter = 0 /\ passes = 1 /\ polls = 0 /\ interval = 0
    /\ presses = <<0>>
    /\ blinks = RedBlinks(0) /\ offMode = <<>>
Clock_Anchor == Anchor(761, 763)
Clock_Work ==
    /\ At(763)
    /\ iter < MaxRounds
    /\ \E e \in WorkTimes : Delay(e)
    /\ iter' = iter + 1
    /\ Goto(765)
    /\ UNCHANGED <<mode, startRoll, isr, clk, irq, out, loc, log, passes, polls, presses, blinks, offMode>>
Clock_Wait == \E nominal \in Nominals : Wait(765, nominal, 761)
ClockNext == Clock_Anchor \/ Clock_Work \/ Clock_Wait
SpecClock == ClockInit /\ [][ClockNext]_vars

\* ===================================================================
\* Properties
\* ===================================================================
\* The frame of loop() (or setup()): the bottom of the call stack.
Main == stack[Len(stack)]
InLoop == Len(stack) = 1
\* The time since the anchor that the last compensated wait measured.
Elapsed == Sub32(endClock, startClock)
\* The claxon tones that program invocation k of the current run has sounded.
ClaxonOf(k) == SelectSeq(log, LAMBDA r : r.k = "claxon" /\ r.it = k)
BeepsOf(k) == SelectSeq(log, LAMBDA r : r.k = "beep" /\ r.it = k)
\* Onsets relative to t0, with the tone lengths.
Rel(seq, t0) == [i \in 1 .. Len(seq) |-> <<Sub32(seq[i].t, t0), seq[i].d>>]
IsPrefix(a, b) == Len(a) <= Len(b) /\ a = SubSeq(b, 1, Len(a))
\* A group of tones sounded back to back from offset base, each followed by
\* half a second of silence.
RECURSIVE Tones(_, _)
Tones(base, durs) ==
    IF durs = <<>> THEN <<>>
    ELSE << <<base, Head(durs)>> >> \o Tones(base + Head(durs) + halfSecond, Tail(durs))
Long == claxonlongDuration
Short == claxonshortDuration
\* The final minute from its three short tones (offset b) to the start tone.
FinalMinuteList(b) ==
    Tones(b, <<Short, Short, Short>>)
    \o Tones(b + tenSeconds, <<Short, Short>>)
    \o Tones(b + tenSeconds + tenSeconds, <<Short>>)
    \o Tones(b + tenSeconds + tenSeconds + fiveSeconds,
             <<Short, Short, Short, Short, Short>>)
    \o Tones(b + tenSeconds + tenSeconds + fiveSeconds + 5 * oneSecond,
             <<claxonstartDuration>>)
\* Mode 0 from the first of the three long tones.
AppendixSList ==
    Tones(0, <<Long, Long, Long>>)
    \o Tones(oneMinute, <<Long, Long>>)
    \o Tones(oneMinute + thirtySeconds, <<Long, Short, Short, Short>>)
    \o Tones(oneMinute + thirtySeconds + thirtySeconds, <<Long>>)
    \o FinalMinuteList(oneMinute + thirtySeconds + thirtySeconds + thirtySeconds)

\* C1: in a mode 0 run the claxon tones of the program (after the
\* announcement) are, in order and with nothing else, 3 long, 2 long,
\* 1 long + 3 short, 1 long, 3 short, 2 short, 1 short, 5 short one second
\* apart and one start tone of 2000 ms, the groups' onsets being oneMinute,
\* thirtySeconds, thirtySeconds, thirtySeconds, tenSeconds, tenSeconds,
\* fiveSeconds and 5 x 1000 ms apart: at every moment of the run the tones
\* sounded so far are a prefix of that list, and on return they are all of it.
C1_Mode0EventList ==
    (selectCase = 1 /\ iter >= 1) =>
        LET c == ClaxonOf(1)
        IN  /\ c # <<>> => IsPrefix(Rel(c, c[1].t), AppendixSList)
            /\ (InLoop /\ At(357)) => Len(c) = Len(AppendixSList)
C1_Witness ==
    /\ selectCase = 1 /\ InLoop /\ At(357)
    /\ Len(ClaxonOf(1)) = 22
    /\ Len(ClaxonOf(0)) = 5

\* The compensated waits of the four programs: the line reached when the
\* wait is over, and the nominal interval of the wait.
AfterWait ==
    {<<671, oneMinute>>, <<685, thirtySeconds>>, <<702, thirtySeconds>>,
     <<732, thirtySeconds>>, <<747, tenSeconds>>, <<761, tenSeconds>>,
     <<774, fiveSeconds>>,
     <<834, fortyfiveSeconds>>, <<846, fifteenSeconds>>, <<859, twofortyFive>>,
     <<870, fifteenSeconds>>, <<885, fortyfiveSeconds>>, <<895, fifteenSeconds>>,
     <<945, fortyfiveSeconds>>, <<954, fifteenSeconds>>}
\* Line 954 is also reached from the entry of RuleTwoNineTwo when startRoll
\* is 1, without a wait.
WaitJustOver(w) == At(w[1]) /\ (w[1] = 954 => startRoll = 0)

\* C2: at the end of every compensated wait of every program, if the time
\* e elapsed since the anchor was at most the nominal length L, the wait
\* executed was L - e and the time from the anchor to the end of the wait
\* is exactly L.
C2_CompensatedWait ==
    \A w \in AfterWait :
        (WaitJustOver(w) /\ ~ULess(w[2], Elapsed)) =>
            /\ interval = w[2]
            /\ waitTime = w[2] - Elapsed
            /\ Sub32(now, startClock) = w[2]
C2_Witness ==
    /\ At(671) /\ startRoll = 1 /\ Elapsed = claxonstartDuration + halfSecond
    /\ waitTime = oneMinute - 2500

Shift(seq, d) == [i \in 1 .. Len(seq) |-> <<seq[i][1] + d, seq[i][2]>>]
CueAndSignal == fortyfiveSeconds + fifteenSeconds
RuleTwoSixList ==
    Tones(0, <<Long>>)
    \o Tones(CueAndSignal, <<Long>>)
    \o Tones(CueAndSignal + twofortyFive + fifteenSeconds, <<Long>>)
    \o Tones(CueAndSignal + twofortyFive + fifteenSeconds + CueAndSignal, <<Long>>)
RuleTwoNineTwoList ==
    Tones(0, <<Long, Long>>) \o Shift(RuleTwoSixList, CueAndSignal)
\* What a later iteration of a rolling case sounds, from its own first tone:
\* Appendix S from T-2:00, Rule 26 from T-4:00.
RolledList(c) ==
    IF c = 2 THEN Shift(SubSeq(AppendixSList, 4, Len(AppendixSList)), 0 - oneMinute)
    ELSE Shift(Tail(RuleTwoSixList), 0 - CueAndSignal)
\* Invocation k of the current run has returned.
Done(k) == k < iter \/ (k = iter /\ InLoop)
First(k) == ClaxonOf(k)[1].t
Start(k) == ClaxonOf(k)[Len(ClaxonOf(k))].t
About(x, n) == (x - n) * 1000 <= n /\ (n - x) * 1000 <= n
Rolling == selectCase \in {2, 4, 6}

AppendixSTotal ==
    oneMinute + thirtySeconds + thirtySeconds + thirtySeconds + tenSeconds + tenSeconds
    + fiveSeconds + 5 * oneSecond
RuleTwoSixTotal == CueAndSignal + twofortyFive + fifteenSeconds + CueAndSignal
NominalTotal(c) == IF c = 2 THEN AppendixSTotal ELSE RuleTwoSixTotal
RolledEntry == {645, 663, 809, 825, 917, 954}

\* C5: in a rolling run, on entry to every iteration with startRoll = 1
\* (up to its first compensated wait) startClock is the onset of the
\* previous iteration's start tone, the last thing sounded; and the onset
\* of every start tone after the first follows the onset of the previous
\* start tone by the sum of the nominal intervals of the full sequence,
\* which in modes 1 and 3 is the time from the first tone to the start
\* tone of the first iteration.
C5_StartIsNextAnchor ==
    /\ (startRoll = 1 /\ Head(stack) \in RolledEntry) =>
           /\ log[Len(log)].k = "claxon"
           /\ log[Len(log)].it = iter - 1
           /\ startClock = log[Len(log)].t
    /\ (Rolling /\ iter >= 2) =>
           \A k \in 2 .. iter :
               Done(k) =>
                   /\ Sub32(Start(k), Start(k - 1)) = NominalTotal(selectCase)
                   /\ selectCase \in {2, 4} =>
                          Sub32(Start(k), Start(k - 1)) = Sub32(Start(1), First(1))
C5_Witness ==
    /\ selectCase = 4 /\ iter = 2 /\ InLoop /\ At(408)
    /\ Sub32(Start(2), Start(1)) = 299929

\* RuleTwoSix runs as the callee of RuleTwoNineTwo.
Delegated == \E i \in 1 .. Len(stack) : stack[i] = 955
\* C6, as claimed: in RuleTwoNineTwo with startRoll = 0 the delegated
\* RuleTwoSix neither captures a new anchor (line 819) nor sounds the
\* leading T-5:00 long tone (line 821).
C6_NoAnchorNoLeadingTone ==
    (Delegated /\ startRoll = 0) => Head(stack) \notin {819, 821}
\* C6, amended: in RuleTwoNineTwo with startRoll = 0 the delegated
\* RuleTwoSix takes its startRoll = 0 branch: it captures a new anchor one
\* nominal minute after the onset of the T-6:00 signal and sounds the
\* T-5:00 long tone there; that tone is the third tone of the run and is
\* sounded exactly once, the next tone being the T-4:00 signal.
C6_DelegatedLeadingTone ==
    (selectCase \in {5, 6} /\ iter = 1) =>
        LET c == ClaxonOf(1)
            r == Rel(c, c[1].t)
        IN  /\ (Delegated /\ At(821)) =>
                   /\ startRoll = 0
                   /\ startClock = now
                   /\ Sub32(now, c[1].t) = oneMinute
            /\ (Delegated /\ Head(stack) \in 825 .. 899) =>
                   /\ Len(c) >= 3
                   /\ r[3] = <<oneMinute, Long>>
                   /\ Cardinality({i \in 1 .. Len(c) : r[i][1] = oneMinute}) = 1
            /\ c # <<>> => IsPrefix(r, RuleTwoNineTwoList)
C6_Witness ==
    /\ selectCase = 5 /\ Delegated /\ At(850)
    /\ Len(ClaxonOf(1)) = 4
    /\ Sub32(ClaxonOf(1)[3].t, ClaxonOf(1)[1].t) = oneMinute
    /\ Sub32(ClaxonOf(1)[4].t, ClaxonOf(1)[3].t) = oneMinute

\* C7: Appendix S with startRoll = 0 takes the sum of its nominal
\* intervals, 179960 ms or about 180000 ms, from the onset of its first
\* tone to the onset of its start tone; with startRoll = 1 it takes that
\* sum less oneMinute, 119974 ms or about 120000 ms, from the first tone of
\* the iteration to its start tone.
C7_AppendixSTotals ==
    /\ (selectCase \in {1, 2, 7} /\ iter >= 1 /\ Done(1)) =>
           /\ Sub32(Start(1), First(1)) = AppendixSTotal
           /\ About(Sub32(Start(1), First(1)), 180000)
    /\ (selectCase = 2 /\ iter >= 2) =>
           \A k \in 2 .. iter :
               Done(k) =>
                   /\ Sub32(Start(k), First(k)) = AppendixSTotal - oneMinute
                   /\ About(Sub32(Start(k), First(k)), 120000)
C7_Witness ==
    /\ selectCase = 2 /\ iter = 2 /\ InLoop
    /\ Sub32(Start(1), First(1)) = 179960
    /\ Sub32(Start(2), First(2)) = 119974

\* C8: Rule 26 with startRoll = 0 sounds four long tones, at T-5:00,
\* T-4:00, T-1:00 and T-0, and takes the sum of its nominal intervals,
\* about 300000 ms, from the first to the start tone; Rule 29.2 with
\* startRoll = 0 takes exactly oneMinute = fortyfiveSeconds +
\* fifteenSeconds more, about 360000 ms, its T-6:00 tones coming one
\* nominal minute before the T-5:00 tone.
C8_RuleTotals ==
    /\ (selectCase \in {3, 4} /\ iter >= 1 /\ Done(1)) =>
           /\ Rel(ClaxonOf(1), First(1)) = RuleTwoSixList
           /\ Sub32(Start(1), First(1)) = RuleTwoSixTotal
           /\ About(Sub32(Start(1), First(1)), 300000)
    /\ (selectCase \in {5, 6} /\ iter >= 1 /\ Done(1)) =>
           /\ Rel(ClaxonOf(1), First(1)) = RuleTwoNineTwoList
           /\ Sub32(Start(1), First(1)) = RuleTwoSixTotal + oneMinute
           /\ Sub32(ClaxonOf(1)[3].t, First(1)) = fortyfiveSeconds + fifteenSeconds
           /\ fortyfiveSeconds + fifteenSeconds = oneMinute
           /\ About(Sub32(Start(1), First(1)), 360000)
C8_Witness ==
    /\ selectCase = 5 /\ InLoop /\ At(423)
    /\ Sub32(Start(1), First(1)) = 359915

\* The lines of loop() that a program invocation returns to.
ProgramReturn == {357, 375, 390, 408, 423, 441, 455, 457}
InProgram == Len(stack) >= 2 /\ Main \in ProgramReturn
RollFlagInProgram ==
    InProgram => startRoll = (IF Rolling /\ iter >= 2 THEN 1 ELSE 0)
RollFlagStep ==
    startRoll' # startRoll =>
        /\ startRoll = 0 /\ startRoll' = 1
        /\ InLoop /\ Head(stack) \in {375, 408, 441}
\* C9: while a program runs, startRoll is 0 in the first invocation of a
\* run and 1 in every later invocation of a rolling run (modes 1, 3, 5),
\* and 0 in every invocation of modes 0, 2, 4 and 6, also in a run started
\* by a later start press; startRoll only ever changes from 0 to 1, and
\* only at the dispatch lines of loop() that follow a rolling program call.
C9_RollStateFlag == [] RollFlagInProgram /\ [][RollFlagStep]_vars
C9_Witness ==
    /\ InProgram /\ selectCase = 4 /\ iter = 2 /\ startRoll = 1
    /\ At(825) /\ passes = 2

\* C10, as claimed: from the validation of the start press (line 289) to
\* the return of the selected program both interrupts are detached.
C10_DetachedFromValidation ==
    Main \in 294 .. 466 => ~intZero /\ ~intOne
SignalsDetached == Main \in 314 .. 466 => ~intZero /\ ~intOne
SignalsStep == Main \in 314 .. 466 => UNCHANGED <<modeChange, skipSignal>>
\* C10, amended: from the return of the second detachInterrupt (line 306),
\* that is from the first announcement beep, to the return of the selected
\* program, both interrupts are detached, so no interrupt service routine
\* runs and neither skipSignal nor modeChange is written while a beep, a
\* tone, a cue or a compensated wait is in progress.
C10_NoInterruptDuringSignals == [] SignalsDetached /\ [][SignalsStep]_vars
C10_Witness ==
    /\ InProgram /\ relay = HIGH /\ At(624) /\ iter = 2
    /\ ~intZero /\ ~intOne /\ modeChange = 1

\* A start press has been validated since power-up.
Started == presses # <<>>
\* C11: once a start press has been validated, modeNumber keeps the value
\* it had at the first validated press, whatever the buttons do afterwards.
C11_ModeFixedAfterStart == Started => modeNumber = presses[1]

\* The cases of the dispatch that call their program once.
NonRolling == selectCase \in {1, 3, 5}
FullList(c) ==
    CASE c = 1 -> AppendixSList
      [] c = 3 -> RuleTwoSixList
      [] OTHER -> RuleTwoNineTwoList
\* The announcement has sounded all its beeps and tones.
AnnouncementDone == Len(BeepsOf(0)) = 2 * fiveBeeps /\ Len(ClaxonOf(0)) = 5
\* From the validation of a start press to the end of the dispatch.
InRun == Main \in 294 .. 466
\* The one program invocation of the current run has sounded its whole
\* list, the start tone last, after the whole announcement.
RunComplete ==
    /\ iter = 1
    /\ AnnouncementDone
    /\ LET c == ClaxonOf(1)
       IN  /\ c # <<>>
           /\ Rel(c, c[1].t) = FullList(selectCase)
           /\ log[Len(log)] = c[Len(c)]
RunLeft == (InRun /\ ~InRun') => (NonRolling /\ At(479) /\ RunComplete)'
\* C12: in modes 0, 2 and 4 every validated start press leads to the whole
\* announcement and the whole sequence through its start tone; a run is
\* left only by the break that follows the program, with the whole
\* sequence sounded; loop() then sets skipSignal = 1 with the start
\* interrupt still detached (line 480) and re-attaches it before the pass
\* ends (line 490); and the run of a later validated press is again whole.
C12_FullRunThenRearmed ==
    /\ []((NonRolling /\ iter = 1 /\ InLoop) => RunComplete)
    /\ []((At(480) /\ ~intZero) => (skipSignal = 1 /\ RunComplete))
    /\ []((InLoop /\ At(490)) => intZero)
    /\ [][RunLeft]_vars
    /\ (At(294) /\ modeNumber \in {0, 2, 4}) ~> (At(480) /\ RunComplete)
C12_Witness ==
    /\ At(490) /\ Len(presses) = 2 /\ NonRolling /\ RunComplete
    /\ intZero /\ skipSignal = 1 /\ passes = 2

\* The lines of the three rolling cases: startRoll = 0, the while line, and
\* the line the program returns to (startRoll = 1).
RollWhile == {370, 403, 436}
RollReturn == {375, 408, 441}
RollLines == {364, 397, 430} \cup RollWhile \cup RollReturn
\* What invocation k of a rolling run sounds, from its own first tone.
RollingList(c, k) == IF k = 1 THEN FullList(c - 1) ELSE RolledList(c)
RollingStep ==
    /\ Main \in RollLines => Main' \in RollLines
    /\ (InLoop /\ Head(stack) \in RollReturn) =>
           /\ startRoll' = 1
           /\ Head(stack') = Head(stack) - 5 /\ Len(stack') = 1
           /\ UNCHANGED <<now, log, iter, out, mode, isr, clk, irq>>
    /\ (InLoop /\ Head(stack) \in RollWhile) =>
           /\ Len(stack') = 2 /\ stack'[2] = Head(stack) + 5
           /\ iter' = iter + 1
           /\ UNCHANGED <<now, log, startRoll, out, mode, isr, clk, irq>>
\* C13: in modes 1, 3 and 5 a validated start press leads to one program
\* invocation after another, each sounding its whole list through the
\* start tone; control never leaves the lines of the rolling case; from the
\* return of one invocation the only steps are startRoll = 1 and the next
\* call, which take no time and sound nothing; and the loop condition
\* never ends the loop (the next call is enabled whenever the iteration
\* bound MaxIter of the model allows one).
C13_RollsForever ==
    /\ []((Rolling /\ iter >= 1) =>
             /\ Main \in RollLines
             /\ AnnouncementDone
             /\ \A k \in 1 .. iter :
                    Done(k) =>
                        Rel(ClaxonOf(k), First(k)) = RollingList(selectCase, k))
    /\ []((InLoop /\ Head(stack) \in RollWhile /\ iter < MaxIter) =>
             ENABLED (Case2_AppendixSRolling \/ Case4_RuleTwoSixRolling
                      \/ Case6_RuleTwoNineTwoRolling))
    /\ [][RollingStep]_vars
    /\ (At(294) /\ modeNumber \in {1, 3, 5}) ~>
           (InLoop /\ Head(stack) \in RollWhile /\ iter = MaxIter)
C13_Witness ==
    /\ InLoop /\ At(403) /\ selectCase = 4 /\ iter = MaxIter /\ startRoll = 1
    /\ Len(ClaxonOf(MaxIter)) = 3 /\ log[Len(log)].it = MaxIter

\* One repetition of the final minute, from the start tone that anchors it
\* to its own start tone.
PursuitMinute == thirtySeconds + tenSeconds + tenSeconds + fiveSeconds + 5 * oneSecond
Pursuit == selectCase = 7 /\ iter >= 1
\* C14, as claimed: in the pursuit mode consecutive start tones are one
\* nominal minute (oneMinute) apart.
C14_StartsOneMinuteApart ==
    (Pursuit /\ iter >= 2) =>
        \A k \in 2 .. iter :
            Done(k) => Sub32(Start(k), Start(k - 1)) = oneMinute
PursuitStep ==
    (Pursuit /\ Main \in {455, 457}) =>
        /\ Main' \in {455, 457}
        /\ (Main = 457 \/ InLoop) => (Main' = 457 /\ redLed' = HIGH)
\* C14, amended: in the pursuit mode Appendix S runs once in full with
\* startRoll = 0; after its return the red LED is switched on and stays on;
\* the final minute is then repeated, every repetition sounding 3 short,
\* 2 short, 1 short, 5 short one second apart and the start tone, its first
\* tone thirtySeconds after the previous start tone, so that consecutive
\* start tones are thirtySeconds + tenSeconds + tenSeconds + fiveSeconds
\* + 5 x 1000 ms = 59988 ms apart: about one minute, and 2 ms more than
\* oneMinute.
C14_PursuitMinutes ==
    /\ [](Pursuit =>
             /\ startRoll = 0
             /\ Main \in {455, 457}
             /\ Done(1) => Rel(ClaxonOf(1), First(1)) = AppendixSList
             /\ iter >= 2 => redLed = HIGH
             /\ \A k \in 2 .. iter :
                    LET c == ClaxonOf(k)
                    IN  /\ c # <<>> =>
                               /\ IsPrefix(Rel(c, c[1].t), FinalMinuteList(0))
                               /\ Sub32(c[1].t, Start(k - 1)) = thirtySeconds
                        /\ Done(k) =>
                               /\ Len(c) = Len(FinalMinuteList(0))
                               /\ Sub32(Start(k), Start(k - 1)) = PursuitMinute
                               /\ About(PursuitMinute, 60 * oneSecond))
    /\ []((Pursuit /\ InLoop /\ At(457) /\ iter < MaxIter) => ENABLED Case7_Pursuit)
    /\ [][PursuitStep]_vars
C14_Witness ==
    /\ Pursuit /\ iter = 2 /\ InLoop /\ At(457) /\ redLed = HIGH
    /\ Len(ClaxonOf(1)) = 22 /\ Len(ClaxonOf(2)) = 12
    /\ Sub32(Start(2), Start(1)) = PursuitMinute

Modes == 0 .. maxMode
\* The step of setup() that reads the persisted byte, and the step of
\* loop() that accepts a mode-change event.
ModeStep ==
    /\ At(189) => modeNumber' = (IF eeprom \in Modes THEN eeprom ELSE 0)
    /\ At(247) => modeNumber' = (IF modeNumber = maxMode THEN 0 ELSE modeNumber + 1)
    /\ At(259) => eeprom' = modeNumber
\* C15: after setup has read the persisted byte, modeNumber is in 0 .. 6
\* in every state: a persisted byte above 6 gives mode 0, each accepted
\* mode-change event adds exactly 1, and at mode 6 it gives mode 0; the
\* byte written back is in 0 .. 6 too.
C15_ModeInRange ==
    /\ [](~At(189) => modeNumber \in Modes)
    /\ []((At(210) /\ eeprom \notin Modes) => modeNumber = 0)
    /\ [][ModeStep]_vars
C15_Witness ==
    /\ stack = <<543, 259>> /\ eeprom = maxMode /\ modeNumber = 0

\* modeNumber is written by the read of the persisted byte in setup() and
\* by an accepted mode-change event, the pin still closed after buttonHold.
ModeFrame == modeNumber' # modeNumber => (At(189) \/ (InLoop /\ At(247)))
\* C16: after setup nothing changes modeNumber except an accepted
\* mode-change event (line 247): not the display of the mode, not a start
\* press, accepted or rejected, not the announcement, not a program; so
\* from the validation of a start press to the end of the dispatch
\* modeNumber is the mode at the press, and the case selected at the
\* dispatch is that mode's.
C16_ModeFrame ==
    /\ [][ModeFrame]_vars
    /\ [](InRun => modeNumber = presses[Len(presses)])
    /\ []((InRun /\ iter >= 1) => selectCase = modeNumber + 1)
C16_Witness ==
    /\ Main \in ProgramReturn /\ presses = <<3>> /\ eeprom = 3 /\ modeNumber = 3
    /\ selectCase = 4 /\ iter = 2 /\ relay = HIGH /\ passes = 1

\* The lines of loop() that handle a start interrupt whose button is open
\* again after buttonHold (286, 289, 470, 471, then 479 and 480 with the
\* start interrupt still attached), and those that handle such a mode
\* interrupt (234, 239, 271).
StartBounce ==
    /\ InLoop
    /\ \/ Head(stack) \in {470, 471}
       \/ Head(stack) \in {479, 480} /\ intZero
ModeBounce == InLoop /\ Head(stack) \in {234, 271}
Signals == <<log, relay, beeper>>
BounceStep ==
    /\ (InLoop /\ At(286)) => UNCHANGED <<Signals, startRoll, mode>>
    /\ (InLoop /\ At(289) /\ Head(stack') = 470) =>
           UNCHANGED <<Signals, startRoll, mode, iter, presses, isr, intZero, intOne>>
    /\ StartBounce => UNCHANGED <<Signals, startRoll, mode, iter, presses>>
    /\ (StartBounce /\ At(471) /\ stack' # stack) => (intOne' /\ intZero' /\ iflag')
    /\ (StartBounce /\ At(480) /\ stack' # stack) =>
           (Head(stack') = 490 /\ intOne' /\ intZero' /\ iflag')
    /\ ModeBounce => UNCHANGED <<Signals, startRoll, mode>>
    /\ (InLoop /\ At(239) /\ Head(stack') = 271) => UNCHANGED <<Signals, startRoll, mode>>
    /\ (InLoop /\ At(271) /\ stack' # stack) => (modeChange' = 0 /\ iflag')
BeepPeriod == beeponDuration + beepoffDuration
AnnounceList ==
    [i \in 1 .. 3 * fiveBeeps |->
        IF i <= fiveBeeps
          THEN <<(i - 1) * BeepPeriod, "beep", beeponDuration>>
        ELSE IF i <= 2 * fiveBeeps
          THEN <<fiveBeeps * BeepPeriod + (i - fiveBeeps - 1) * oneSecond, "claxon",
                 claxonshortDuration>>
        ELSE <<fiveBeeps * BeepPeriod + fiveBeeps * oneSecond
               + (i - 2 * fiveBeeps - 1) * BeepPeriod, "beep", beeponDuration>>]
Events(seq, t0) == [i \in 1 .. Len(seq) |-> <<Sub32(seq[i].t, t0), seq[i].k, seq[i].d>>]
\* The three-beep cues that invocation k of case c sounds: none in Appendix
\* S, three cues in Rule 26, one more in the first invocation of Rule 29.2.
CueBeeps(c, k) ==
    IF c \in {1, 2, 7} THEN 0
    ELSE IF c \in {5, 6} /\ k = 1 THEN 4 * threeBeeps
    ELSE 3 * threeBeeps
\* The log of a run opens with the announcement and every later event is a
\* tone or a cue beep of a program invocation.
AnnouncementFirst ==
    (Started /\ log # <<>>) =>
        /\ LET n == IF Len(log) < 3 * fiveBeeps THEN Len(log) ELSE 3 * fiveBeeps
           IN  IsPrefix(Events(SubSeq(log, 1, n), log[1].t), AnnounceList)
        /\ \A i \in 1 .. Len(log) : log[i].it = 0 <=> i <= 3 * fiveBeeps
        /\ iter >= 1 =>
               /\ Len(log) >= 3 * fiveBeeps
               /\ selectCase = presses[Len(presses)] + 1
               /\ \A k \in 1 .. iter :
                      /\ Len(BeepsOf(k)) <= CueBeeps(selectCase, k)
                      /\ Done(k) => Len(BeepsOf(k)) = CueBeeps(selectCase, k)
\* An event is logged as part of the announcement exactly when loop() is
\* at its announcement lines (314-336, returning to line 344 at the last).
AnnounceStep ==
    Len(log') > Len(log) => (log'[Len(log')].it = 0 <=> Main \in 314 .. 344)
\* C18: in every mode the log of a run opens with exactly the announcement
\* (five beeps, five short tones one second apart, five beeps); the program
\* is not entered before the announcement is whole; and nothing sounded
\* after it belongs to an announcement: every later tone and beep is one of
\* a program invocation, whose beeps are its three-beep cues only, so the
\* announcement is sounded once per validated press and not between the
\* iterations of a rolling run.
C18_AnnouncementOnce == []AnnouncementFirst /\ [][AnnounceStep]_vars
C18_Witness ==
    /\ selectCase = 6 /\ iter = 2 /\ Done(2) /\ Len(presses) = 1
    /\ Len(BeepsOf(0)) = 10 /\ Len(ClaxonOf(0)) = 5
    /\ Len(BeepsOf(1)) = 12 /\ Len(BeepsOf(2)) = 9

\* The lines of the frames on the call stack.
Frames == {stack[i] : i \in 1 .. Len(stack)}
\* A program is between its digitalWrite (modePin, HIGH) and the return
\* that follows its digitalWrite (modePin, LOW): lines 708-710 of AppendixS
\* and 876-899 of RuleTwoSix, and whatever they call.
InFinalMinute == Frames \cap ({708, 710} \cup (876 .. 899)) # {}
\* The tones invocation k of case c sounds, and how many of them follow its
\* T-1:00 long tone.
RunList(c, k) == IF c \in {1, 3, 5} THEN FullList(c) ELSE RollingList(c, k)
FinalTones(c) == IF c \in {1, 2} THEN Len(FinalMinuteList(0)) ELSE 1
RedStep ==
    (redLed' # redLed /\ InRun /\ selectCase \in 1 .. 6) =>
        LET e == log[Len(log)]
            n == Len(ClaxonOf(iter))
        IN  /\ e.k = "claxon" /\ e.it = iter /\ iter >= 1
            /\ now = Add32(e.t, e.d + halfSecond)
            /\ now' = now
            /\ redLed' = HIGH =>
                   n = Len(RunList(selectCase, iter)) - FinalTones(selectCase)
            /\ redLed' = LOW => n = Len(RunList(selectCase, iter))
\* C19: in modes 0 to 5, from the validation of a start press on, the red
\* LED is on exactly while a program is in its final minute: it is switched
\* on when the T-1:00 long tone and its half second of silence are over and
\* switched off when the start tone of the same invocation and its half
\* second of silence are over, in the first and in every later invocation.
C19_RedInFinalMinute ==
    /\ []((InRun /\ modeNumber \in 0 .. 5) => (redLed = HIGH <=> InFinalMinute))
    /\ [][RedStep]_vars
C19_Witness ==
    /\ selectCase = 4 /\ iter = 2 /\ redLed = HIGH /\ At(887)
    /\ Len(ClaxonOf(1)) = 4 /\ Len(ClaxonOf(2)) = 2

\* Everything invocation k of the current run has sounded, beeps and tones.
EventsOf(k) == SelectSeq(log, LAMBDA r : r.it = k)
\* A three-beep cue from offset b.
CueList(b) ==
    [i \in 1 .. threeBeeps |-> <<b + (i - 1) * BeepPeriod, "beep", beeponDuration>>]
\* A later iteration of Rule 26 (startRoll = 1) from the onset of the
\* previous start tone: cue and T-4:00 tone, cue and T-1:00 tone, cue and
\* start tone.
RolledRuleTwoSixEvents ==
    CueList(fortyfiveSeconds)
    \o << <<CueAndSignal, "claxon", Long>> >>
    \o CueList(CueAndSignal + twofortyFive)
    \o << <<CueAndSignal + twofortyFive + fifteenSeconds, "claxon", Long>> >>
    \o CueList(CueAndSignal + twofortyFive + fifteenSeconds + fortyfiveSeconds)
    \o << <<RuleTwoSixTotal, "claxon", Long>> >>
\* The T-6:00 block of RuleTwoNineTwo (lines 926-953) is on the call stack.
InSixMinuteBlock == Frames \cap (926 .. 953) # {}
SixMinuteOnce ==
    /\ InSixMinuteBlock => (selectCase \in {5, 6} /\ iter = 1 /\ startRoll = 0)
    /\ (selectCase = 6 /\ iter >= 1 /\ Done(1)) =>
           /\ Rel(ClaxonOf(1), First(1)) = RuleTwoNineTwoList
           /\ Len(BeepsOf(1)) = CueBeeps(6, 1)
    /\ (selectCase \in {4, 6} /\ iter >= 2) =>
           \A k \in 2 .. iter :
               LET e == Events(EventsOf(k), Start(k - 1))
               IN  /\ IsPrefix(e, RolledRuleTwoSixEvents)
                   /\ Done(k) => e = RolledRuleTwoSixEvents
\* The T-6:00 block is entered from the test of startRoll only.
SixMinuteStep ==
    (InSixMinuteBlock' /\ ~InSixMinuteBlock) => (At(917) /\ startRoll = 0 /\ iter = 1)
\* C20: in mode 5 the T-6:00 block (two long tones, 45 s, three-beep cue,
\* 15 s) is executed in the first invocation of a run only, where it sounds
\* the first two tones and the first cue; every later invocation of mode 5
\* sounds, from the onset of the previous start tone, exactly the beeps and
\* tones of a later invocation of mode 3, at the same offsets.
C20_SixMinuteBlockOnce == []SixMinuteOnce /\ [][SixMinuteStep]_vars
C20_Witness ==
    /\ selectCase = 6 /\ iter = 2 /\ InLoop /\ At(436)
    /\ Len(EventsOf(1)) = 18 /\ Len(EventsOf(2)) = 12

\* The dispatch cases of Rule 26 and Rule 29.2 (modes 2, 3, 4 and 5).
CuedCases == 3 .. 6
\* Event i of invocation k is a claxon tone directly preceded by a cue of
\* three beeps whose first beep began fifteenSeconds before the tone.
Cued(k, i) ==
    LET e == EventsOf(k)
    IN  /\ i > threeBeeps
        /\ \A j \in 1 .. threeBeeps :
               /\ e[i - j].k = "beep"
               /\ e[i - j].d = beeponDuration
               /\ Sub32(e[i].t, e[i - j].t) = fifteenSeconds - (threeBeeps - j) * BeepPeriod
\* Event i continues the signal event of the tone before it.
SameSignal(k, i) == i > 1 /\ EventsOf(k)[i - 1].k = "claxon"
\* Beep i of invocation k is one of the three beeps of a cue: the beeps
\* come in threes, a beep period apart, and what follows three beeps is a
\* claxon tone.
InCue(k, i) ==
    LET e == EventsOf(k)
    IN  \E p \in {i - 2, i - 1, i} :
            /\ p >= 1
            /\ p = 1 \/ e[p - 1].k = "claxon"
            /\ \A q \in p .. i :
                   e[q].k = "beep" /\ Sub32(e[q].t, e[p].t) = (q - p) * BeepPeriod
            /\ p + threeBeeps <= Len(e) => e[p + threeBeeps].k = "claxon"
EverySignalCued ==
    (selectCase \in CuedCases /\ iter >= 1) =>
        \A k \in 1 .. iter : \A i \in 1 .. Len(EventsOf(k)) :
            EventsOf(k)[i].k = "claxon" => (Cued(k, i) \/ SameSignal(k, i))
CuedSignals ==
    (selectCase \in CuedCases /\ iter >= 1) =>
        \A k \in 1 .. iter : \A i \in 1 .. Len(EventsOf(k)) :
            /\ EventsOf(k)[i].k = "claxon" =>
                   \/ Cued(k, i)
                   \/ SameSignal(k, i)
                   \/ k = 1 /\ i = 1
            /\ EventsOf(k)[i].k = "beep" => InCue(k, i)
\* A beep is sounded inside a program only by a BeepEvent of three beeps.
CueStep ==
    (iter >= 1 /\ selectCase \in CuedCases /\ Len(log') > Len(log)
        /\ log'[Len(log')].k = "beep") => beepCount = threeBeeps
Called == stack[Len(stack) - 1]
\* The protocol a running program belongs to: 1 for AppendixS (lines
\* 631-712), 2 for RuleTwoSix (796-901), 3 for RuleTwoNineTwo (903-955) and
\* 4 for whatever case 7 of the dispatch calls (lines 451-457).
Protocol ==
    CASE Main \in {455, 457} -> 4
      [] Called \in 631 .. 712 -> 1
      [] Called \in 796 .. 901 -> 2
      [] Called \in 903 .. 955 -> 3
      [] OTHER -> 0
\* While a program runs, the red blinks of the latest ShowMode number its
\* protocol, and a run whose yellow LED is off calls its program once.
DisplayAgrees ==
    /\ InProgram => blinks = Protocol
    /\ (InRun /\ iter >= 1 /\ yellowLed = LOW) => iter = 1
\* With the yellow LED on the dispatch is never left; with the yellow LED
\* off the return of the program is followed by the break out of the switch
\* (line 479), from where loop() returns to its idle pass.
YellowStep ==
    (InRun /\ iter >= 1) =>
        /\ yellowLed' = yellowLed
        /\ yellowLed = HIGH => Main' \in 344 .. 466
        /\ (yellowLed = LOW /\ InLoop /\ Main \in ProgramReturn) => Main' = 479
WaitLines == {663, 676, 693, 722, 738, 752, 765, 825, 836, 850, 861, 876, 887, 935, 947}
InBeepEvent == Frames \cap (580 .. 603) # {}
\* The relay is on only between the two digitalWrite of SoundClaxon and the
\* beeper only between the two digitalWrite of BeepEvent.
ClaxonQuiet ==
    /\ relay = HIGH => At(624)
    /\ beeper = HIGH => At(597)
    /\ ~(relay = HIGH /\ beeper = HIGH)
    /\ (Head(stack) \in WaitLines \/ InBeepEvent \/ InLoop) => relay = LOW
\* SoundClaxon switches the relay on, holds it for toneDuration, switches
\* it off and returns after notoneDuration; nothing else writes the relay.
ClaxonStep ==
    /\ (At(622) /\ stack' # stack) =>
           (relay' = HIGH /\ now' = now /\ Head(stack') = 624)
    /\ (At(624) /\ stack' # stack) =>
           (relay' = LOW /\ now' = Add32(now, toneDuration) /\ Head(stack') = 628)
    /\ (At(628) /\ stack' # stack) =>
           (relay' = LOW /\ now' = Add32(now, notoneDuration) /\ stack' = Tail(stack))
    /\ relay' # relay => (At(622) \/ At(624))
\* C23: the claxon relay is on only inside a SoundClaxon call, for
\* toneDuration, and is off for notoneDuration before the call returns; it
\* is off at every compensated wait, during every BeepEvent, in the idle
\* loop and between program invocations, and the relay and the beeper are
\* never on together.
C23_ClaxonOnlyInSoundClaxon == []ClaxonQuiet /\ [][ClaxonStep]_vars
C23_Witness ==
    /\ At(628) /\ relay = LOW /\ beeper = LOW /\ InProgram /\ Main = 408
    /\ iter = 2 /\ toneDuration = claxonlongDuration /\ notoneDuration = halfSecond
    /\ log # <<>> /\ log[Len(log)].k = "claxon"
    /\ now = Add32(log[Len(log)].t, toneDuration)

\* Every compensated wait: its line and its nominal interval.
WaitAt ==
    {<<663, oneMinute>>, <<676, thirtySeconds>>, <<693, thirtySeconds>>,
     <<722, thirtySeconds>>, <<738, tenSeconds>>, <<752, tenSeconds>>,
     <<765, fiveSeconds>>,
     <<825, fortyfiveSeconds>>, <<836, fifteenSeconds>>, <<850, twofortyFive>>,
     <<861, fifteenSeconds>>, <<876, fortyfiveSeconds>>, <<887, fifteenSeconds>>,
     <<935, fortyfiveSeconds>>, <<947, fifteenSeconds>>}
\* C24: when a program reaches a compensated wait, in a first, a rolled or
\* a pursuit invocation, the time elapsed since the anchor is strictly
\* smaller than the nominal interval; so the wait executed, nominal minus
\* elapsed, is positive and below the nominal interval: the unsigned
\* subtraction does not wrap.
C24_NoUnderflow ==
    /\ \A w \in WaitAt : At(w[1]) => ULess(Sub32(now, startClock), w[2])
    /\ \A w \in AfterWait :
           WaitJustOver(w) =>
               /\ ULess(Elapsed, w[2])
               /\ waitTime = w[2] - Elapsed
               /\ waitTime > 0 /\ waitTime <= w[2]
C24_Witness ==
    /\ At(825) /\ startRoll = 1 /\ iter = 2 /\ selectCase = 4
    /\ Sub32(now, startClock) = claxonlongDuration + halfSecond
    /\ log[Len(log)].it = 1

\* setup() has read the persisted byte after a power cycle and has not yet
\* returned.
SetupAfterCycle == offMode # <<>> /\ stack # <<189>>
\* C25 as stated: whenever power is cut and restored, the modeNumber that
\* setup establishes is the modeNumber that was in force when power was cut.
C25_ModeSurvivesPowerCycle == SetupAfterCycle => modeNumber = offMode[1]
====
